---- MODULE Spec2Model ----
(***************************************************************************)
(* Model of rollup-preserve-directives (src/src/index.ts).                 *)
(*                                                                         *)
(* The plugin keeps one `meta` object per plugin instance (shebangs: Map,  *)
(* directives: Record<string, Set<string>>) and exposes three hooks:       *)
(* transform.handler, renderChunk and onLog.  Module text is modelled as a *)
(* sequence of characters with 0-based offsets as in the source; every     *)
(* top-level statement is a one-character body followed by ";", so that    *)
(* source spans, the shebang slice and MagicString removals are computed   *)
(* on real offsets.                                                        *)
(***************************************************************************)
EXTENDS Integers, Sequences, FiniteSets, TLC

VARIABLES
    meta,         \* the plugin instance's store: shebangs and directives
    parserFlags,  \* whether the host's parser sets `directive` on statements
    build,        \* number of the running build of this plugin instance
    transformed,  \* module ids that went through transform in this build
    watched,      \* module texts of the build, when the host fixed them up front
    base,         \* `meta` as it was when the running build started
    call          \* the hook invocation in flight, with its arguments and result

vars == <<meta, parserFlags, build, transformed, watched, base, call>>

\* ------------------------------------------------------------------ bounds
MaxStmts == 3      \* top-level statements per module text
MaxShebang == 1    \* characters of a shebang line after "#!"
MaxBuilds == 2     \* builds run with the same plugin instance

\* ------------------------------------------------------------- characters
\* null where an object or a text is expected; NullStr where a string is
Null == <<>>
NullStr == "null"
Undefined == "undefined"
False == "false"

LineBreaks == {"LF", "CR", "LS", "PS"}

\* charCode === 10 || 13 || 0x2028 || 0x2029
IsLineBreak(c) == c \in LineBreaks

\* code[i] with a 0-based index; out of range reads give undefined
At(s, i) == IF i >= 0 /\ i < Len(s) THEN s[i + 1] ELSE Undefined

\* String.prototype.slice(from, to) with 0 <= from <= to <= length
Slice(s, from, to) == IF to <= from THEN <<>> ELSE SubSeq(s, from + 1, to)

\* ------------------------------------------------------------ MagicString
NewMagicString(code) == [original |-> code, removed |-> {}, intro |-> <<>>]

\* remove(start, end): the characters start..end-1 of the ORIGINAL string
Remove(ms, start, end) ==
    IF start = end THEN ms
    ELSE [ms EXCEPT !.removed = @ \cup (start .. (end - 1))]

\* prepend(content): intro = content + intro
Prepend(ms, content) == [ms EXCEPT !.intro = content \o @]

RECURSIVE Kept(_, _, _)
Kept(original, removed, i) ==
    IF i >= Len(original) THEN <<>>
    ELSE (IF i \in removed THEN <<>> ELSE <<At(original, i)>>)
         \o Kept(original, removed, i + 1)

MsToString(ms) == ms.intro \o Kept(ms.original, ms.removed, 0)

\* ------------------------------------------------------------- extensions
ESExtensions ==
    {".js", ".jsx", ".ts", ".tsx", ".mjs", ".mjsx", ".mts", ".mtsx",
     ".cjs", ".cjsx", ".cts", ".ctsx"}

\* /\.(m|c)?(j|t)sx?$/ applied to an extension
AvailableESExtensionsRegexTest(ext) == ext \in ESExtensions

ModuleIds == {"a.js", "b.mjs", "c.css"}

\* path.extname(id)
Extname(id) ==
    CASE id = "a.js" -> ".js"
      [] id = "b.mjs" -> ".mjs"
      [] id = "c.css" -> ".css"
      [] OTHER -> ""

\* ----------------------------------------------------------------- parser
\* One-character statement bodies and the node the parser builds for each.
StringLiterals == {"C", "S", "h"}
StmtChars == StringLiterals \cup {"f", "v"}
Whitespace == LineBreaks \cup {" "}

LiteralValue(c) ==
    CASE c = "C" -> "use client"
      [] c = "S" -> "use strict"
      [] c = "h" -> "hello"
      [] OTHER -> Undefined

\* /^use (\w+)$/
DirectiveRegexTest(value) == value \in {"use client", "use strict"}

\* flags = TRUE: the parser sets `directive` on the statements of the
\* leading string-literal prologue (acorn/rollup); FALSE: it never does.
MakeNode(c, start, flags, inPrologue) ==
    [type |-> IF c = "v" THEN "VariableDeclaration" ELSE "ExpressionStatement",
     exprType |-> IF c \in StringLiterals THEN "Literal"
                  ELSE IF c = "f" THEN "CallExpression" ELSE Undefined,
     value |-> LiteralValue(c),
     hasDirective |-> flags /\ inPrologue /\ c \in StringLiterals,
     directive |-> IF flags /\ inPrologue /\ c \in StringLiterals
                   THEN LiteralValue(c) ELSE Undefined,
     start |-> start,
     end |-> start + 2]

RECURSIVE ParseStmts(_, _, _, _, _)
ParseStmts(text, pos, flags, inPrologue, acc) ==
    IF pos >= Len(text) THEN [ok |-> TRUE, type |-> "Program", body |-> acc]
    ELSE LET c == At(text, pos) IN
         IF c \in Whitespace
         THEN ParseStmts(text, pos + 1, flags, inPrologue, acc)
         ELSE IF c \in StmtChars /\ At(text, pos + 1) = ";"
         THEN ParseStmts(text, pos + 2, flags,
                         inPrologue /\ c \in StringLiterals,
                         Append(acc, MakeNode(c, pos, flags, inPrologue)))
         ELSE [ok |-> FALSE, type |-> Undefined, body |-> <<>>]

RECURSIVE SkipLine(_, _)
SkipLine(text, pos) ==
    IF pos >= Len(text) \/ IsLineBreak(At(text, pos)) THEN pos
    ELSE SkipLine(text, pos + 1)

\* this.parse(text, {allowReturnOutsideFunction: true, allowShebang: true})
Parse(text, flags) ==
    LET from == IF At(text, 0) = "#" /\ At(text, 1) = "!"
                THEN SkipLine(text, 2) ELSE 0
    IN ParseStmts(text, from, flags, TRUE, <<>>)

\* ------------------------------------------------------------------ store
\* meta = { shebangs: new Map(), directives: {} }
EmptyMeta == [shebangs |-> <<>>, directives |-> <<>>]

\* Map.prototype.set / property assignment
Put(f, k, v) == [x \in (DOMAIN f) \cup {k} |-> IF x = k THEN v ELSE f[x]]

Range(s) == {s[i] : i \in 1 .. Len(s)}

\* Set.prototype.add on an insertion-ordered set
SetAdd(set, d) == IF d \in Range(set) THEN set ELSE Append(set, d)

\* meta.shebangs.get(id) || null
ShebangOf(m, id) == IF id \in DOMAIN m.shebangs THEN m.shebangs[id] ELSE Null

\* meta.directives[id] || []
DirectivesOf(m, id) ==
    IF id \in DOMAIN m.directives THEN m.directives[id] ELSE <<>>

\* Mutant: one Set shared by all modules, the directive lands in every record.
AddDirective_SharedSet(m, id, directive) ==
    [m EXCEPT !.directives =
        [x \in (DOMAIN @) \cup {id} |->
            SetAdd(IF x \in DOMAIN @ THEN @[x] ELSE <<>>, directive)]]

\* meta.directives[id] ||= new Set(); meta.directives[id].add(directive)
AddDirective(m, id, directive) ==
    [m EXCEPT !.directives = Put(@, id, SetAdd(DirectivesOf(m, id), directive))]

\* -------------------------------------------------------------- transform
\* for (let i = 2; i < len; i++) if (line break) { firstNewLineIndex = i; break }
RECURSIVE FirstNewLineFrom(_, _)
FirstNewLineFrom(code, i) ==
    IF i >= Len(code) THEN 0
    ELSE IF IsLineBreak(At(code, i)) THEN i
    ELSE FirstNewLineFrom(code, i + 1)

\* Mutant: the index after the line break instead of the line break's.
FirstNewLineIndex_PastBreak(code) ==
    IF At(code, 0) = "#" /\ At(code, 1) = "!" /\ FirstNewLineFrom(code, 2) # 0
    THEN FirstNewLineFrom(code, 2) + 1
    ELSE 0

FirstNewLineIndex(code) ==
    IF At(code, 0) = "#" /\ At(code, 1) = "!" THEN FirstNewLineFrom(code, 2)
    ELSE 0

\* the value of `directive` for one ExpressionStatement node
NodeDirective(node) ==
    IF node.hasDirective THEN node.directive
    ELSE IF node.exprType = "Literal" /\ DirectiveRegexTest(node.value)
    THEN node.value
    ELSE NullStr

Truthy(directive) == directive # NullStr /\ directive # Undefined /\ directive # ""

\* for (const node of ast.body) { ... }
RECURSIVE ScanBody(_, _, _, _)
ScanBody(body, i, id, st) ==
    IF i > Len(body) THEN st
    ELSE LET node == body[i] IN
         IF node.type # "ExpressionStatement" THEN st
         ELSE LET directive == NodeDirective(node) IN
              IF Truthy(directive)
              THEN ScanBody(body, i + 1, id,
                       [meta |-> AddDirective(st.meta, id, directive),
                        ms |-> Remove(st.ms, node.start, node.end),
                        hasChanged |-> TRUE])
              ELSE ScanBody(body, i + 1, id, st)

\* transform.handler(code, id); `flags` is the parser's directive flagging
TransformHandler(m, id, code, flags) ==
    IF ~AvailableESExtensionsRegexTest(Extname(id))
    THEN [meta |-> m, ret |-> Null, warns |-> <<>>]
    ELSE
    LET fnl == FirstNewLineIndex(code)
        m1 == IF fnl # 0
              THEN [m EXCEPT !.shebangs = Put(@, id, Slice(code, 0, fnl))]
              ELSE m
        ms1 == IF fnl # 0
               THEN Remove(NewMagicString(code), 0, fnl + 1)
               ELSE NewMagicString(code)
        ast == Parse(MsToString(ms1), flags)
    IN IF ~ast.ok
       THEN [meta |-> m1, ret |-> Null, warns |-> <<[code |-> "PARSE_ERROR", id |-> id]>>]
       ELSE IF ast.type # "Program"
       THEN [meta |-> m1, ret |-> Null, warns |-> <<>>]
       ELSE
       LET st == ScanBody(ast.body, 1, id,
                          [meta |-> m1, ms |-> ms1, hasChanged |-> fnl # 0])
       IN IF ~st.hasChanged
          THEN [meta |-> st.meta, ret |-> Null, warns |-> <<>>]
          ELSE [meta |-> st.meta,
                ret |-> [code |-> MsToString(st.ms),
                         directives |-> DirectivesOf(st.meta, id),
                         shebang |-> ShebangOf(st.meta, id)],
                warns |-> <<>>]

\* ------------------------------------------------------------ renderChunk
\* moduleIds.map(...).reduce((acc, directives) => ..., new Set())
RECURSIVE AddAll(_, _, _)
AddAll(acc, directives, i) ==
    IF i > Len(directives) THEN acc
    ELSE AddAll(SetAdd(acc, directives[i]), directives, i + 1)

RECURSIVE OutputDirectives(_, _, _, _)
OutputDirectives(m, moduleIds, i, acc) ==
    IF i > Len(moduleIds) THEN acc
    ELSE OutputDirectives(m, moduleIds, i + 1,
             IF moduleIds[i] \in DOMAIN m.directives
             THEN AddAll(acc, m.directives[moduleIds[i]], 1)
             ELSE acc)

\* `'${directive}';` for each directive, joined with "\n", then "\n"
RECURSIVE DirectiveLines(_, _)
DirectiveLines(ds, i) ==
    IF i > Len(ds) THEN <<>>
    ELSE <<"'", ds[i], "'", ";", "LF">> \o DirectiveLines(ds, i + 1)

\* Mutant: the shebang of the first chunk member that has one.
RECURSIVE FirstShebang(_, _, _)
FirstShebang(m, moduleIds, i) ==
    IF i > Len(moduleIds) THEN Null
    ELSE IF ShebangOf(m, moduleIds[i]) # Null THEN ShebangOf(m, moduleIds[i])
    ELSE FirstShebang(m, moduleIds, i + 1)

ChunkShebang_AnyMember(m, moduleIds, facadeModuleId) ==
    FirstShebang(m, moduleIds, 1)

\* chunk.facadeModuleId ? meta.shebangs.get(chunk.facadeModuleId) || null : null
ChunkShebang(m, moduleIds, facadeModuleId) ==
    IF facadeModuleId # NullStr THEN ShebangOf(m, facadeModuleId) ELSE Null

\* Mutant: the shebang is prepended before the directives are.
RenderChunkHandler_ShebangFirst(m, code, moduleIds, facadeModuleId) ==
    LET outputDirectives == OutputDirectives(m, moduleIds, 1, <<>>)
        shebang == ChunkShebang(m, moduleIds, facadeModuleId)
        ms1 == IF shebang # Null
               THEN Prepend(NewMagicString(code), shebang \o <<"LF">>)
               ELSE Null
        ms2 == IF Len(outputDirectives) # 0
               THEN Prepend(IF ms1 = Null THEN NewMagicString(code) ELSE ms1,
                            DirectiveLines(outputDirectives, 1))
               ELSE ms1
    IN IF ms2 = Null THEN Null ELSE [code |-> MsToString(ms2)]

\* renderChunk(code, chunk, { sourcemap })
RenderChunkHandler(m, code, moduleIds, facadeModuleId) ==
    LET outputDirectives == OutputDirectives(m, moduleIds, 1, <<>>)
        ms1 == IF Len(outputDirectives) # 0
               THEN Prepend(NewMagicString(code), DirectiveLines(outputDirectives, 1))
               ELSE Null
        shebang == ChunkShebang(m, moduleIds, facadeModuleId)
        ms2 == IF shebang # Null
               THEN Prepend(IF ms1 = Null THEN NewMagicString(code) ELSE ms1,
                            shebang \o <<"LF">>)
               ELSE ms1
    IN IF ms2 = Null THEN Null ELSE [code |-> MsToString(ms2)]

\* ------------------------------------------------------------------ onLog
\* Returns false to filter the event; otherwise re-emits the record with
\* this.warn and returns its (void) result, which lets the event through.
OnLogHandler(level, log) ==
    IF log.code = "MODULE_LEVEL_DIRECTIVE" /\ level = "warn"
    THEN [ret |-> False, warns |-> <<>>]
    ELSE [ret |-> Undefined, warns |-> <<log>>]

\* ----------------------------------------------------------------- inputs
RECURSIVE Xs(_)
Xs(n) == IF n = 0 THEN <<>> ELSE <<"x">> \o Xs(n - 1)

\* "#!" X line-feed for each length of X, "#!" ended by a carriage return
\* or a paragraph separator, and a "#!" line that no line break ends
ShebangPrefixes ==
    {<<"#", "!">> \o Xs(n) \o <<"LF">> : n \in 0 .. MaxShebang}
    \cup {<<"#", "!", "CR">>, <<"#", "!", "PS">>, <<"#", "!">>}

\* no shebang, a shebang at offset 0, or a "#!" that is not at offset 0
Prefixes == {<<>>, <<" ", "#", "!", "LF">>} \cup ShebangPrefixes

RECURSIVE Bodies(_)
Bodies(n) ==
    IF n = 0 THEN {<<>>}
    ELSE LET shorter == Bodies(n - 1) IN
         shorter \cup {b \o <<c, ";">> : b \in shorter, c \in StmtChars}

\* "@" is a character no statement can start with: the text does not parse
Texts ==
    {p \o b : p \in Prefixes, b \in Bodies(MaxStmts)}
    \cup {p \o b \o <<"@">> : p \in Prefixes, b \in Bodies(1)}

\* a few module texts: nothing to extract, a directive prologue, a shebang
\* with a prologue, a shebang before text that does not parse
FewTexts ==
    {<<>>,
     <<"C", ";", "S", ";">>,
     <<"#", "!", "LF", "S", ";", "v", ";">>,
     <<"#", "!", "x", "LF", "@">>}

StyleTexts == {<<"#", "!", "LF", "C", ";">>}

\* The texts the host passes for a module: every text for "a.js", a few for
\* the second script, a style sheet for the module that is no script.
TextsFor(id) ==
    CASE id = "a.js" -> Texts
      [] id = "b.mjs" -> FewTexts
      [] OTHER -> StyleTexts

\* The texts of a watched project: a few per script.
WatchTextsFor(id) ==
    IF AvailableESExtensionsRegexTest(Extname(id)) THEN FewTexts ELSE StyleTexts

RECURSIVE DistinctSeqs(_)
DistinctSeqs(S) ==
    {<<>>} \cup UNION {{<<x>> \o s : s \in DistinctSeqs(S \ {x})} : x \in S}

ChunkCodes == {<<>>, <<"f", ";">>}
Levels == {"warn", "info", "debug"}
LogCodes == {"MODULE_LEVEL_DIRECTIVE", "UNUSED_EXTERNAL_IMPORT"}

Idle == [op |-> "idle"]

\* ---------------------------------------------------------------- actions
\* preserveDirectives(): a fresh plugin instance, before any hook ran
InitPlugin ==
    /\ meta = EmptyMeta
    /\ base = EmptyMeta
    /\ build = 1
    /\ transformed = {}
    /\ call = Idle
    /\ parserFlags \in BOOLEAN

\* the host reads each module when it transforms it
Init == InitPlugin /\ watched = <<>>

\* the watcher fixed the text of every module of the build up front
InitWatch ==
    /\ InitPlugin
    /\ watched \in [ModuleIds -> FewTexts \cup StyleTexts]
    /\ \A id \in ModuleIds : watched[id] \in WatchTextsFor(id)

\* The host calls transform once per module of the current build.
Transform(id, code) ==
    /\ call = Idle
    /\ id \notin transformed
    /\ LET r == TransformHandler(meta, id, code, parserFlags) IN
       /\ meta' = r.meta
       /\ call' = [op |-> "transform", id |-> id, code |-> code,
                   before |-> meta, ret |-> r.ret, warns |-> r.warns]
    /\ transformed' = transformed \cup {id}
    /\ UNCHANGED <<build, parserFlags, watched, base>>

\* The host calls renderChunk for each finished chunk, once every module of
\* the build went through transform.
RenderChunk(code, moduleIds, facadeModuleId) ==
    /\ call = Idle
    /\ transformed = ModuleIds
    /\ call' = [op |-> "renderChunk", code |-> code, moduleIds |-> moduleIds,
                facadeModuleId |-> facadeModuleId,
                ret |-> RenderChunkHandler(meta, code, moduleIds, facadeModuleId)]
    /\ UNCHANGED <<meta, build, transformed, parserFlags, watched, base>>

\* The host passes a log event to onLog.
OnLog(level, log) ==
    /\ call = Idle
    /\ LET r == OnLogHandler(level, log)
           passed == IF r.ret = False THEN <<>> ELSE <<[level |-> level, log |-> log]>>
           emitted == [i \in 1 .. Len(r.warns) |-> [level |-> "warn", log |-> r.warns[i]]]
       IN call' = [op |-> "onLog", level |-> level, log |-> log, ret |-> r.ret,
                   delivered |-> passed \o emitted]
    /\ UNCHANGED <<meta, build, transformed, parserFlags, watched, base>>

\* The host takes the hook's result and goes on.
Return ==
    /\ call # Idle
    /\ call' = Idle
    /\ UNCHANGED <<meta, build, transformed, parserFlags, watched, base>>

\* Watch mode: the same plugin instance serves the next build; the plugin
\* has no buildStart hook, so `meta` is whatever the last build left.
BuildStart(texts) ==
    /\ call = Idle
    /\ transformed = ModuleIds
    /\ build < MaxBuilds
    /\ build' = build + 1
    /\ transformed' = {}
    /\ watched' = texts
    /\ base' = meta
    /\ call' = [op |-> "buildStart"]
    /\ UNCHANGED <<meta, parserFlags>>

\* the host is free to start a hook only when no hook invocation is in flight
Render ==
    /\ call = Idle
    /\ transformed = ModuleIds
    /\ \E code \in ChunkCodes, moduleIds \in DistinctSeqs(ModuleIds) :
          \E facadeModuleId \in {NullStr} \cup Range(moduleIds) :
             RenderChunk(code, moduleIds, facadeModuleId)

Log ==
    /\ call = Idle
    /\ \E level \in Levels, c \in LogCodes : OnLog(level, [code |-> c])

TransformModule ==
    /\ call = Idle
    /\ \E id \in ModuleIds \ transformed :
          \E code \in TextsFor(id) : Transform(id, code)

Next ==
    \/ TransformModule
    \/ Render
    \/ Log
    \/ Return

Spec == Init /\ [][Next]_vars

TransformWatched ==
    /\ call = Idle
    /\ \E id \in ModuleIds \ transformed : Transform(id, watched[id])

Rebuild ==
    /\ call = Idle
    /\ transformed = ModuleIds
    /\ build < MaxBuilds
    /\ \E texts \in [ModuleIds -> FewTexts \cup StyleTexts] :
          /\ \A id \in ModuleIds : texts[id] \in WatchTextsFor(id)
          /\ BuildStart(texts)

NextWatch ==
    \/ TransformWatched
    \/ Render
    \/ Log
    \/ Return
    \/ Rebuild

SpecWatch == InitWatch /\ [][NextWatch]_vars

\* ------------------------------------------------------- shared helpers
RECURSIVE Dedupe(_)
\* a sequence without its repeated elements, first occurrences kept
Dedupe(s) ==
    IF s = <<>> THEN <<>>
    ELSE LET front == Dedupe(SubSeq(s, 1, Len(s) - 1)) IN
         IF s[Len(s)] \in Range(front) THEN front ELSE Append(front, s[Len(s)])

RECURSIVE Flatten(_, _)
\* the recorded directives of the modules, concatenated in module-id order
Flatten(m, ids) ==
    IF ids = <<>> THEN <<>>
    ELSE (IF ids[1] \in DOMAIN m.directives THEN m.directives[ids[1]] ELSE <<>>)
         \o Flatten(m, Tail(ids))

RECURSIVE Lines(_)
\* one line 'd'; per directive
Lines(ds) ==
    IF ds = <<>> THEN <<>>
    ELSE <<"'", ds[1], "'", ";", "LF">> \o Lines(Tail(ds))

IsRender == call.op = "renderChunk"
IsTransform == call.op = "transform"

FacadeShebang ==
    IF call.facadeModuleId # NullStr /\ call.facadeModuleId \in DOMAIN meta.shebangs
    THEN meta.shebangs[call.facadeModuleId]
    ELSE <<>>

\* the text of a hook result, or <<>> when the hook returned null
RetCode == IF call.ret = Null THEN <<>> ELSE call.ret.code

\* ------------------------------------------------------------------- C1
\* C1: a rendered chunk whose merged directive set is non-empty or whose
\* facade has a recorded shebang is exactly: the facade's shebang and a
\* newline (if any), then one line 'd'; per directive of the union taken in
\* first-seen order over the chunk's module-id order, then the original
\* chunk text.
C1_PrologueThenChunk ==
    IsRender =>
        LET union == Dedupe(Flatten(meta, call.moduleIds))
            shebang == FacadeShebang
        IN (union # <<>> \/ shebang # <<>>) =>
              /\ call.ret # Null
              /\ call.ret.code =
                    (IF shebang # <<>> THEN shebang \o <<"LF">> ELSE <<>>)
                    \o Lines(union) \o call.code

\* a chunk with a facade shebang and two directives whose first-seen order
\* is not the alphabetical one
C1_Witness ==
    /\ IsRender
    /\ FacadeShebang # <<>>
    /\ Dedupe(Flatten(meta, call.moduleIds)) = <<"use strict", "use client">>
    /\ Len(call.moduleIds) >= 2
    /\ call.ret # Null

\* ------------------------------------------------------------------- C5
\* C5: renderChunk emits a shebang only for a chunk with a facade id, and
\* then only the one recorded for that id; the shebangs recorded for the
\* other members of the chunk are never emitted.
EmittedShebang(text) ==
    IF At(text, 0) = "#"
    THEN Slice(text, 0, CHOOSE k \in 0 .. Len(text) - 1 :
                           /\ text[k + 1] = "LF"
                           /\ \A j \in 0 .. k - 1 : text[j + 1] # "LF")
    ELSE <<>>

RECURSIVE TransformAll(_, _)
TransformAll(m, ids) ==
    IF ids = <<>> THEN m
    ELSE TransformAll(TransformHandler(m, ids[1], watched[ids[1]], parserFlags).meta,
                      Tail(ids))

\* the modules already transformed in this build, in one fixed order
RECURSIVE InFixedOrder(_, _)
InFixedOrder(order, done) ==
    IF order = <<>> THEN <<>>
    ELSE (IF order[1] \in done THEN <<order[1]>> ELSE <<>>)
         \o InFixedOrder(Tail(order), done)

FixedOrder == <<"a.js", "b.mjs", "c.css">>

\* C10: a transform invocation writes only the store entries of its own
\* module id and renderChunk writes none; so whatever the order in which the
\* modules of a build were transformed, the store is the one a fixed order
\* gives, and every renderChunk result is the one computed from that store.
C10_OrderIndependent ==
    LET fixed == TransformAll(base, InFixedOrder(FixedOrder, transformed)) IN
    /\ meta = fixed
    /\ IsTransform =>
          \A other \in ModuleIds \ {call.id} :
             /\ ShebangOf(meta, other) = ShebangOf(call.before, other)
             /\ (other \in DOMAIN meta.directives) = (other \in DOMAIN call.before.directives)
             /\ DirectivesOf(meta, other) = DirectivesOf(call.before, other)
    /\ IsRender =>
          call.ret = RenderChunkHandler(fixed, call.code, call.moduleIds,
                                        call.facadeModuleId)

\* "a.js" is transformed after "b.mjs", against the fixed order, and both
\* modules have a directive record
C10_Witness ==
    /\ IsTransform
    /\ call.id = "a.js"
    /\ "b.mjs" \in transformed
    /\ {"a.js", "b.mjs"} \subseteq DOMAIN meta.directives
    /\ "a.js" \notin DOMAIN call.before.directives

\* ------------------------------------------------------------------- C8
\* C8: every build of a plugin instance starts with empty stores, and what
\* the store holds for a module after its transform is what the module's
\* current text carries, nothing of an earlier build.
C8_FreshStorePerBuild ==
    /\ call.op = "buildStart" => meta = EmptyMeta
    /\ IsTransform =>
          LET fresh == TransformHandler(EmptyMeta, call.id, call.code, parserFlags).meta IN
          /\ ShebangOf(meta, call.id) = ShebangOf(fresh, call.id)
          /\ DirectivesOf(meta, call.id) = DirectivesOf(fresh, call.id)

\* ---------------------------------------------- transform: shared helpers
IsScript == AvailableESExtensionsRegexTest(Extname(call.id))

\* offset of the line break that ends a shebang line at offset 0, or -1
ShebangEnd(code) ==
    IF At(code, 0) = "#" /\ At(code, 1) = "!"
       /\ \E k \in 2 .. Len(code) - 1 : IsLineBreak(code[k + 1])
    THEN CHOOSE k \in 2 .. Len(code) - 1 :
            /\ IsLineBreak(code[k + 1])
            /\ \A j \in 2 .. k - 1 : ~IsLineBreak(code[j + 1])
    ELSE -1

\* the module text after its shebang line, which is what the parser is given
AfterShebang(code) == Slice(code, ShebangEnd(code) + 1, Len(code))

\* the top-level statements of the module
Statements(code) == Parse(AfterShebang(code), parserFlags).body

Parses(code) == Parse(AfterShebang(code), parserFlags).ok

\* a string-literal expression statement the parser flags as a directive or
\* whose text matches "use <word>"
Qualifies(node) ==
    /\ node.type = "ExpressionStatement"
    /\ node.exprType = "Literal"
    /\ (node.hasDirective \/ DirectiveRegexTest(node.value))

\* number of statements of the leading directive prologue
PrologueLen(body) ==
    IF \A i \in 1 .. Len(body) : Qualifies(body[i]) THEN Len(body)
    ELSE (CHOOSE i \in 1 .. Len(body) :
             /\ ~Qualifies(body[i])
             /\ \A j \in 1 .. i - 1 : Qualifies(body[j])) - 1

PrologueContents(body) == [i \in 1 .. PrologueLen(body) |-> body[i].value]

\* the text transform hands back: the edited text, or the input on null
Output == IF call.ret = Null THEN call.code ELSE call.ret.code

EndsWith(text, tail) ==
    /\ Len(tail) <= Len(text)
    /\ Slice(text, Len(text) - Len(tail), Len(text)) = tail

\* ------------------------------------------------------------------- C2
\* C2: the directive scan stops for good at the first top-level statement
\* that is not a directive: no statement from there on is added to the
\* module's directive set or removed from the module text.
C2_ScanStopsAtFirstNonDirective ==
    (IsTransform /\ IsScript /\ Parses(call.code)) =>
        LET body == Statements(call.code)
            stop == PrologueLen(body) + 1
            text == AfterShebang(call.code)
        IN stop <= Len(body) =>
              /\ EndsWith(Output, Slice(text, body[stop].start, Len(text)))
              /\ Range(DirectivesOf(meta, call.id))
                    \subseteq Range(PrologueContents(body))

\* ------------------------------------------------------------------- C3
\* statements the scan recorded a directive for
Recorded(body) ==
    {i \in 1 .. Len(body) :
        /\ \A j \in 1 .. i : body[j].type = "ExpressionStatement"
        /\ Truthy(NodeDirective(body[i]))}

\* C3: the edited text is the original text without the shebang span
\* [0, k+1) and without the span each recorded directive statement has in
\* the original text, every other character kept in order.
C3_ExactSpansDeleted ==
    (IsTransform /\ call.ret # Null) =>
        LET k == ShebangEnd(call.code)
            body == Statements(call.code)
            spans == (0 .. k) \cup
                     UNION {(body[i].start + k + 1) .. (body[i].end + k) :
                               i \in Recorded(body)}
        IN call.ret.code = Kept(call.code, spans, 0)

\* ------------------------------------------------------------------- C4
\* C4: a module that fails to parse gets exactly one warning naming it, its
\* text is returned unchanged, and the store holds no record for it, neither
\* a shebang nor a directive set.
C4_ParseFailureLeavesNoRecord ==
    (IsTransform /\ IsScript /\ ~Parses(call.code)) =>
        /\ Len(call.warns) = 1
        /\ call.warns[1].id = call.id
        /\ call.ret = Null
        /\ call.id \notin DOMAIN meta.shebangs
        /\ call.id \notin DOMAIN meta.directives

\* ------------------------------------------------------------------- C7
\* C7: after transform the directive set of the module holds each distinct
\* directive of its leading prologue once, in first-seen order, and nothing
\* else; the returned metadata lists the same directives in the same order.
C7_SetIsThePrologue ==
    (IsTransform /\ IsScript /\ Parses(call.code)) =>
        LET prologue == Dedupe(PrologueContents(Statements(call.code))) IN
        /\ DirectivesOf(meta, call.id) = prologue
        /\ call.ret # Null => call.ret.directives = prologue

\* ------------------------------------------------------------------- C9
\* C9: onLog suppresses an event exactly when it is a warn-level
\* MODULE_LEVEL_DIRECTIVE; every other event reaches the host once, with
\* the same record and the same severity.
C9_OthersForwardedUnchanged ==
    call.op = "onLog" =>
        LET suppressed == call.level = "warn" /\ call.log.code = "MODULE_LEVEL_DIRECTIVE" IN
        /\ (call.ret = False) <=> suppressed
        /\ ~suppressed => call.delivered = <<[level |-> call.level, log |-> call.log]>>

\* ------------------------------------------------------------------- C6
\* module text of the form "#!" X line-feed B, X without a line break
HasLfShebang(code) == ShebangEnd(code) >= 2 /\ code[ShebangEnd(code) + 1] = "LF"

\* "#!" at offset 0 that no line break follows
HasOpenShebang(code) ==
    /\ At(code, 0) = "#" /\ At(code, 1) = "!"
    /\ \A k \in 2 .. Len(code) - 1 : ~IsLineBreak(code[k + 1])

C6_Recording ==
    /\ HasLfShebang(call.code) =>
          /\ call.id \in DOMAIN meta.shebangs
          /\ meta.shebangs[call.id] = Slice(call.code, 0, ShebangEnd(call.code))
    /\ HasOpenShebang(call.code) =>
          /\ meta.shebangs = call.before.shebangs
          /\ call.ret = Null
    /\ ~(At(call.code, 0) = "#" /\ At(call.code, 1) = "!") =>
          meta.shebangs = call.before.shebangs

====
